---- MODULE Spec2Model ----
(***************************************************************************)
(* Model of pyo3's src/type_object.rs: the type_flags bit constants and    *)
(* the two one-shot lazy cells LazyHeapType and LazyStaticType, called     *)
(* concurrently by threads that may or may not already hold the GIL.       *)
(***************************************************************************)
EXTENDS Naturals, FiniteSets, Sequences, TLC

(* ------------------------------ bounds -------------------------------- *)
\* number of threads racing on the cells
NumThreads == 2
\* total number of get_or_init calls started in one execution
MaxCalls == 3
\* number of distinct addresses a constructor closure may produce
NumAddrs == 2
\* number of type descriptors in the type tree
NumTypes == 4

Threads == 1..NumThreads
NoThread == 0

\* Option<NonNull<PyTypeObject>>: None is the null niche, Some(a) is a /= 0
None == 0
Addrs == 1..NumAddrs

\* the two statics: one LazyHeapType and one LazyStaticType
Cells == {"heap", "static"}

\* self.value.get() of the LazyStaticType: the address of the embedded record,
\* chosen outside the range of addresses a heap constructor produces
StaticValuePtr == NumAddrs + 1

\* contents of the embedded ffi::PyTypeObject: PyTypeObject_INIT until the
\* synthesis writes it ("complete"), or fails half way ("partial")
PyTypeObject_INIT == "INIT"

(* ---------------------------- type_flags ------------------------------ *)
Shl(x, n) == x * (2 ^ n)

GC == 1
WEAKREF == Shl(1, 1)
BASETYPE == Shl(1, 2)
DICT == Shl(1, 3)
\* a copy-paste slip: EXTENDED given DICT's shift
EXTENDED_SameShiftAsDict == Shl(1, 3)
EXTENDED == Shl(1, 4)

FlagNames == {"GC", "WEAKREF", "BASETYPE", "DICT", "EXTENDED"}

FlagValue(f) ==
    CASE f = "GC" -> GC
      [] f = "WEAKREF" -> WEAKREF
      [] f = "BASETYPE" -> BASETYPE
      [] f = "DICT" -> DICT
      [] f = "EXTENDED" -> EXTENDED

\* usize `|` and `&`, bit by bit
RECURSIVE BitOr(_, _)
BitOr(a, b) ==
    IF a = 0 THEN b
    ELSE IF b = 0 THEN a
    ELSE (IF (a % 2 = 1) \/ (b % 2 = 1) THEN 1 ELSE 0) + 2 * BitOr(a \div 2, b \div 2)

RECURSIVE BitAnd(_, _)
BitAnd(a, b) ==
    IF a = 0 \/ b = 0 THEN 0
    ELSE (IF (a % 2 = 1) /\ (b % 2 = 1) THEN 1 ELSE 0) + 2 * BitAnd(a \div 2, b \div 2)

(* --------------------------- type identity ---------------------------- *)
\* the descriptors; descriptor 1 is the root of the single-rooted tree
Types == 1..NumTypes

NULL == 0

\* PyTypeInfo::type_object(): the address of the one type record of T
type_object(T) == NumTypes + T

\* the descriptor a type record was synthesized from
DescriptorAt(addr) == addr - NumTypes

(* ------------------------------- state -------------------------------- *)
VARIABLES
    initialized,    \* [Cells -> BOOLEAN]: the AtomicBool of each cell
    heapValue,      \* LazyHeapType.value: None or an address
    staticValue,    \* LazyStaticType.value: contents of the embedded record
    gilOwner,       \* thread holding the GIL, or NoThread
    gilCarries,     \* the last GIL release happened-after the write of heapValue
    pc,             \* [Threads -> position]
    cell,           \* [Threads -> cell of the running call, or "none"]
    swapped,        \* [Threads -> this call's CAS changed the flag false -> true]
    gil,            \* [Threads -> the `gil` guard local of get_or_init is alive]
    outer,          \* [Threads -> the caller holds a GIL guard of its own]
    tmp,            \* [Threads -> value returned by constructor, not yet stored]
    res,            \* [Threads -> result of initialize_type_object: "none","Ok","Err"]
    sees,           \* [Threads -> the write of heapValue happens-before this thread]
    ncalls,         \* number of get_or_init calls started
    constructed,    \* [Cells -> number of constructor / synthesis executions]
    returned,       \* [Cells -> addresses returned by get_or_init so far, in order]
    stderr,         \* threads whose error was printed with e.print(py)
    panicStrategy,  \* "unwind" or "abort": the build's panic strategy
    aborted,        \* the process was aborted by a panic
    flagsIn,        \* subset of FlagNames a descriptor declares
    flagsLeft,      \* flags of flagsIn not yet or-ed into bits
    bits,           \* the FLAGS value built so far
    baseType,       \* [Types -> base descriptor, or 0 for the root]: BaseType
    obType,         \* (*object.as_ptr()).ob_type of the handle, NULL before it exists
    queryT,         \* descriptor the handle was last checked against, 0 if none
    instRes,        \* result of the last is_instance
    exactRes        \* result of the last is_exact_instance

cellVars == <<initialized, heapValue, staticValue>>
gilVars == <<gilOwner, gilCarries>>
threadVars == <<pc, cell, swapped, gil, outer, tmp, res, sees>>
obsVars == <<ncalls, constructed, returned, stderr>>
procVars == <<panicStrategy, aborted>>
flagVars == <<flagsIn, flagsLeft, bits>>
typeVars == <<baseType, obType, queryT, instRes, exactRes>>
descVars == <<flagVars, typeVars>>
vars == <<cellVars, gilVars, threadVars, obsVars, procVars, descVars>>

(* ------------------------------ helpers ------------------------------- *)
\* AtomicBool::compare_and_swap(current, new, order): stores `new` when the flag
\* holds `expected`, and returns the previous value
compare_and_swap_LoadOnly(current, expected, new) ==
    [prev |-> current, next |-> current]

compare_and_swap(current, expected, new) ==
    [prev |-> current, next |-> IF current = expected THEN new ELSE current]

\* Python::acquire_gil() blocks until the GIL is free; it is re-entrant for the
\* thread that already holds it
GilGrantable(t) == gilOwner \in {NoThread, t}

\* acquiring a released GIL synchronizes-with its last release
SeesAfterAcquire(t) == sees[t] \/ (gilOwner = NoThread /\ gilCarries)

\* values the unsynchronized read `*self.value.get()` may yield to thread t:
\* the slot's current value, or the stale None when the write of the slot does
\* not happen-before the read (Ordering::Acquire on a failed CAS of a flag
\* that was set before the write orders nothing)
Observable(t) ==
    IF heapValue = None THEN {None}
    ELSE IF sees[t] THEN {heapValue}
    ELSE {None, heapValue}

\* a get_or_init call of thread t on cell c is running
InCall(t, c) ==
    /\ cell[t] = c
    /\ pc[t] \in {"cas", "acquire_gil", "construct", "store", "initialize",
                  "print", "panic", "drop_gil", "read"}

Panicked(t) == pc[t] \in {"panicked_unwrap", "panicked_init"}

\* the call returns v to its caller; the locals of the frame are gone
Return(t, v) ==
    /\ pc' = [pc EXCEPT ![t] = "idle"]
    /\ returned' = [returned EXCEPT ![cell[t]] = Append(@, v)]
    /\ cell' = [cell EXCEPT ![t] = "none"]
    /\ swapped' = [swapped EXCEPT ![t] = FALSE]
    /\ tmp' = [tmp EXCEPT ![t] = None]
    /\ res' = [res EXCEPT ![t] = "none"]
    /\ UNCHANGED <<cellVars, gilVars, gil, outer, sees, ncalls, constructed,
                   stderr, procVars, descVars>>

\* a panic: with panic=abort the process stops at once; with panic=unwind the
\* thread unwinds, dropping every GIL guard on its stack, and is dead
Panic(t, why) ==
    /\ pc' = [pc EXCEPT ![t] = why]
    /\ IF panicStrategy = "abort"
       THEN /\ aborted' = TRUE
            /\ UNCHANGED <<gil, outer, gilVars>>
       ELSE /\ aborted' = aborted
            /\ gil' = [gil EXCEPT ![t] = FALSE]
            /\ outer' = [outer EXCEPT ![t] = FALSE]
            /\ gilOwner' = IF gilOwner = t THEN NoThread ELSE gilOwner
            /\ gilCarries' = IF gilOwner = t THEN gilCarries \/ sees[t] ELSE gilCarries
    /\ UNCHANGED <<cellVars, cell, swapped, tmp, res, sees, obsVars,
                   panicStrategy, descVars>>

(* ------------------------------- Init --------------------------------- *)
\* LazyHeapType::new() and LazyStaticType::new(); no thread has called yet
Init ==
    /\ initialized = [c \in Cells |-> FALSE]
    /\ heapValue = None
    /\ staticValue = PyTypeObject_INIT
    /\ gilOwner = NoThread
    /\ gilCarries = FALSE
    /\ pc = [t \in Threads |-> "idle"]
    /\ cell = [t \in Threads |-> "none"]
    /\ swapped = [t \in Threads |-> FALSE]
    /\ gil = [t \in Threads |-> FALSE]
    /\ outer = [t \in Threads |-> FALSE]
    /\ tmp = [t \in Threads |-> None]
    /\ res = [t \in Threads |-> "none"]
    /\ sees = [t \in Threads |-> FALSE]
    /\ ncalls = 0
    /\ constructed = [c \in Cells |-> 0]
    /\ returned = [c \in Cells |-> <<>>]
    /\ stderr = {}
    /\ panicStrategy \in {"unwind", "abort"}
    /\ aborted = FALSE
    /\ flagsIn = {}
    /\ flagsLeft = {}
    /\ bits = 0
    /\ baseType = [T \in Types |-> IF T = 1 THEN 0 ELSE T - 1]
    /\ obType = NULL
    /\ queryT = 0
    /\ instRes = FALSE
    /\ exactRes = FALSE

(* ------------------------- the caller's side -------------------------- *)
\* the caller takes the GIL before it calls get_or_init
AcquireOuter(t) ==
    /\ ~aborted
    /\ pc[t] = "idle"
    /\ ~outer[t]
    /\ gilOwner = NoThread
    /\ outer' = [outer EXCEPT ![t] = TRUE]
    /\ gilOwner' = t
    /\ sees' = [sees EXCEPT ![t] = SeesAfterAcquire(t)]
    /\ UNCHANGED <<cellVars, gilCarries, pc, cell, swapped, gil, tmp, res,
                   obsVars, procVars, descVars>>

\* the caller's guard goes out of scope
ReleaseOuter(t) ==
    /\ ~aborted
    /\ pc[t] = "idle"
    /\ outer[t]
    /\ outer' = [outer EXCEPT ![t] = FALSE]
    /\ gilOwner' = NoThread
    /\ gilCarries' = (gilCarries \/ sees[t])
    /\ UNCHANGED <<cellVars, pc, cell, swapped, gil, tmp, res, sees,
                   obsVars, procVars, descVars>>

\* thread t enters get_or_init of cell c
Call(t, c) ==
    /\ ~aborted
    /\ pc[t] = "idle"
    /\ ncalls < MaxCalls
    /\ ncalls' = ncalls + 1
    /\ pc' = [pc EXCEPT ![t] = "cas"]
    /\ cell' = [cell EXCEPT ![t] = c]
    /\ UNCHANGED <<cellVars, gilVars, swapped, gil, outer, tmp, res, sees,
                   constructed, returned, stderr, procVars, descVars>>

(* ---------------------------- get_or_init ----------------------------- *)
\* a slip: the arguments of the swap exchanged, compare_and_swap(true, false, ..)
Cas_ArgsExchanged(t) ==
    /\ ~aborted
    /\ pc[t] = "cas"
    /\ LET c == cell[t]
           r == compare_and_swap(initialized[c], TRUE, FALSE)
       IN /\ initialized' = [initialized EXCEPT ![c] = r.next]
          /\ swapped' = [swapped EXCEPT ![t] = (r.next # initialized[c])]
          /\ pc' = [pc EXCEPT ![t] = IF ~r.prev THEN "acquire_gil" ELSE "read"]
    /\ UNCHANGED <<heapValue, staticValue, gilVars, cell, gil, outer, tmp, res,
                   sees, obsVars, procVars, descVars>>

\* if !self.initialized.compare_and_swap(false, true, Ordering::Acquire)
Cas(t) ==
    /\ ~aborted
    /\ pc[t] = "cas"
    /\ LET c == cell[t]
           r == compare_and_swap(initialized[c], FALSE, TRUE)
       IN /\ initialized' = [initialized EXCEPT ![c] = r.next]
          /\ swapped' = [swapped EXCEPT ![t] = (r.next # initialized[c])]
          /\ pc' = [pc EXCEPT ![t] = IF ~r.prev THEN "acquire_gil" ELSE "read"]
    /\ UNCHANGED <<heapValue, staticValue, gilVars, cell, gil, outer, tmp, res,
                   sees, obsVars, procVars, descVars>>

\* a slip: the branch is entered without taking the GIL
AcquireGil_NoLock(t) ==
    /\ ~aborted
    /\ pc[t] = "acquire_gil"
    /\ pc' = [pc EXCEPT ![t] = IF cell[t] = "heap" THEN "construct" ELSE "initialize"]
    /\ UNCHANGED <<cellVars, gilVars, cell, swapped, gil, outer, tmp, res, sees,
                   obsVars, procVars, descVars>>

\* let gil = Python::acquire_gil();
AcquireGil(t) ==
    /\ ~aborted
    /\ pc[t] = "acquire_gil"
    /\ GilGrantable(t)
    /\ gilOwner' = t
    /\ gil' = [gil EXCEPT ![t] = TRUE]
    /\ sees' = [sees EXCEPT ![t] = SeesAfterAcquire(t)]
    /\ pc' = [pc EXCEPT ![t] = IF cell[t] = "heap" THEN "construct" ELSE "initialize"]
    /\ UNCHANGED <<cellVars, gilCarries, cell, swapped, outer, tmp, res,
                   obsVars, procVars, descVars>>

\* constructor(gil.python()): the closure runs and yields an address
Construct(t) ==
    /\ ~aborted
    /\ pc[t] = "construct"
    /\ \E a \in Addrs : tmp' = [tmp EXCEPT ![t] = a]
    /\ constructed' = [constructed EXCEPT !["heap"] = @ + 1]
    /\ pc' = [pc EXCEPT ![t] = "store"]
    /\ UNCHANGED <<cellVars, gilVars, cell, swapped, gil, outer, res, sees,
                   ncalls, returned, stderr, procVars, descVars>>

\* *self.value.get() = Some(..)
Store(t) ==
    /\ ~aborted
    /\ pc[t] = "store"
    /\ heapValue' = tmp[t]
    /\ tmp' = [tmp EXCEPT ![t] = None]
    /\ sees' = [sees EXCEPT ![t] = TRUE]
    /\ pc' = [pc EXCEPT ![t] = "drop_gil"]
    /\ UNCHANGED <<initialized, staticValue, gilVars, cell, swapped, gil, outer,
                   res, obsVars, procVars, descVars>>

\* a slip: a failed synthesis gives the flag back so that a later call retries
Initialize_ResetOnError(t) ==
    /\ ~aborted
    /\ pc[t] = "initialize"
    /\ constructed' = [constructed EXCEPT !["static"] = @ + 1]
    /\ \E ok \in BOOLEAN :
         IF ok
         THEN /\ staticValue' = "complete"
              /\ res' = [res EXCEPT ![t] = "Ok"]
              /\ pc' = [pc EXCEPT ![t] = "drop_gil"]
              /\ UNCHANGED initialized
         ELSE /\ staticValue' \in {PyTypeObject_INIT, "partial"}
              /\ res' = [res EXCEPT ![t] = "Err"]
              /\ pc' = [pc EXCEPT ![t] = "print"]
              /\ initialized' = [initialized EXCEPT !["static"] = FALSE]
    /\ UNCHANGED <<heapValue, gilVars, cell, swapped, gil, outer, tmp, sees,
                   ncalls, returned, stderr, procVars, descVars>>

\* initialize_type_object::<T>(py, T::MODULE, &mut *self.value.get()): writes the
\* record in place and returns Ok, or fails and leaves it untouched or half written
Initialize(t) ==
    /\ ~aborted
    /\ pc[t] = "initialize"
    /\ constructed' = [constructed EXCEPT !["static"] = @ + 1]
    /\ \E ok \in BOOLEAN :
         IF ok
         THEN /\ staticValue' = "complete"
              /\ res' = [res EXCEPT ![t] = "Ok"]
              /\ pc' = [pc EXCEPT ![t] = "drop_gil"]
         ELSE /\ staticValue' \in {PyTypeObject_INIT, "partial"}
              /\ res' = [res EXCEPT ![t] = "Err"]
              /\ pc' = [pc EXCEPT ![t] = "print"]
    /\ UNCHANGED <<initialized, heapValue, gilVars, cell, swapped, gil, outer,
                   tmp, sees, ncalls, returned, stderr, procVars, descVars>>

\* a slip: the closure of unwrap_or_else panics without printing
PrintError_Skip(t) ==
    /\ ~aborted
    /\ pc[t] = "print"
    /\ pc' = [pc EXCEPT ![t] = "panic"]
    /\ UNCHANGED <<cellVars, gilVars, cell, swapped, gil, outer, tmp, res, sees,
                   obsVars, procVars, descVars>>

\* .unwrap_or_else(|e| { e.print(py); ...
PrintError(t) ==
    /\ ~aborted
    /\ pc[t] = "print"
    /\ stderr' = stderr \cup {t}
    /\ pc' = [pc EXCEPT ![t] = "panic"]
    /\ UNCHANGED <<cellVars, gilVars, cell, swapped, gil, outer, tmp, res, sees,
                   ncalls, constructed, returned, procVars, descVars>>

\* panic!("An error occurred while initializing class {}", T::NAME)
PanicInit(t) ==
    /\ ~aborted
    /\ pc[t] = "panic"
    /\ Panic(t, "panicked_init")

\* a slip: the guard is leaked (kept alive past the block), the GIL stays held
DropGil_Leak(t) ==
    /\ ~aborted
    /\ pc[t] = "drop_gil"
    /\ pc' = [pc EXCEPT ![t] = "read"]
    /\ UNCHANGED <<cellVars, gilVars, cell, swapped, gil, outer, tmp, res, sees,
                   obsVars, procVars, descVars>>

\* the closing brace of the if: `gil` is dropped
DropGil(t) ==
    /\ ~aborted
    /\ pc[t] = "drop_gil"
    /\ gil' = [gil EXCEPT ![t] = FALSE]
    /\ IF gil[t] /\ ~outer[t]
       THEN /\ gilOwner' = NoThread
            /\ gilCarries' = (gilCarries \/ sees[t])
       ELSE UNCHANGED gilVars
    /\ pc' = [pc EXCEPT ![t] = "read"]
    /\ UNCHANGED <<cellVars, cell, swapped, outer, tmp, res, sees, obsVars,
                   procVars, descVars>>

\* a variant: the final read waits until the slot is filled before it unwraps
ReadHeap_WaitForValue(t) ==
    /\ ~aborted
    /\ pc[t] = "read"
    /\ cell[t] = "heap"
    /\ \E v \in Observable(t) \ {None} : Return(t, v)

\* unsafe { (*self.value.get()).unwrap() }
ReadHeap(t) ==
    /\ ~aborted
    /\ pc[t] = "read"
    /\ cell[t] = "heap"
    /\ \E v \in Observable(t) :
         IF v = None
         THEN Panic(t, "panicked_unwrap")
         ELSE Return(t, v)

\* unsafe { &*self.value.get() }
ReadStatic(t) ==
    /\ ~aborted
    /\ pc[t] = "read"
    /\ cell[t] = "static"
    /\ Return(t, StaticValuePtr)

Next ==
    \E t \in Threads :
        \/ AcquireOuter(t)
        \/ ReleaseOuter(t)
        \/ \E c \in Cells : Call(t, c)
        \/ Cas(t)
        \/ AcquireGil(t)
        \/ Construct(t)
        \/ Store(t)
        \/ Initialize(t)
        \/ PrintError(t)
        \/ PanicInit(t)
        \/ DropGil(t)
        \/ ReadHeap(t)
        \/ ReadStatic(t)

Spec == Init /\ [][Next]_vars

(* ------------------------------ progress ------------------------------ *)
\* the steps of get_or_init that need nothing but the thread being scheduled
RunStep(t) ==
    \/ Cas(t)
    \/ Construct(t)
    \/ Store(t)
    \/ Initialize(t)
    \/ PrintError(t)
    \/ PanicInit(t)
    \/ DropGil(t)
    \/ ReadHeap(t)
    \/ ReadStatic(t)

\* a running thread keeps being scheduled; the GIL is granted fairly to a
\* thread that asks for it; a caller's own guard goes out of scope in the end
Fairness ==
    \A t \in Threads :
        /\ WF_vars(RunStep(t))
        /\ SF_vars(AcquireGil(t))
        /\ WF_vars(ReleaseOuter(t))

SpecLive == Init /\ [][Next]_vars /\ Fairness

(* ----------------------- composing type flags ------------------------- *)
\* a descriptor declares a subset of the five flags; FLAGS starts from its
\* default 0 and the declared flags are or-ed in one at a time
FlagsInit ==
    /\ initialized = [c \in Cells |-> FALSE]
    /\ heapValue = None
    /\ staticValue = PyTypeObject_INIT
    /\ gilOwner = NoThread
    /\ gilCarries = FALSE
    /\ pc = [t \in Threads |-> "idle"]
    /\ cell = [t \in Threads |-> "none"]
    /\ swapped = [t \in Threads |-> FALSE]
    /\ gil = [t \in Threads |-> FALSE]
    /\ outer = [t \in Threads |-> FALSE]
    /\ tmp = [t \in Threads |-> None]
    /\ res = [t \in Threads |-> "none"]
    /\ sees = [t \in Threads |-> FALSE]
    /\ ncalls = 0
    /\ constructed = [c \in Cells |-> 0]
    /\ returned = [c \in Cells |-> <<>>]
    /\ stderr = {}
    /\ panicStrategy = "unwind"
    /\ aborted = FALSE
    /\ flagsIn \in SUBSET FlagNames
    /\ flagsLeft = flagsIn
    /\ bits = 0
    /\ baseType = [T \in Types |-> IF T = 1 THEN 0 ELSE T - 1]
    /\ obType = NULL
    /\ queryT = 0
    /\ instRes = FALSE
    /\ exactRes = FALSE

\* FLAGS = FLAGS | f
OrFlag(f) ==
    /\ f \in flagsLeft
    /\ bits' = BitOr(bits, FlagValue(f))
    /\ flagsLeft' = flagsLeft \ {f}
    /\ UNCHANGED <<cellVars, gilVars, threadVars, obsVars, procVars, flagsIn,
                   typeVars>>

FlagsNext == \E f \in FlagNames : OrFlag(f)

SpecFlags == FlagsInit /\ [][FlagsNext]_vars

(* ------------------------ instance checks ----------------------------- *)
\* tp_base of the type record at addr: the record of the descriptor's BaseType,
\* NULL for the root
tp_base(addr) ==
    IF baseType[DescriptorAt(addr)] = 0 THEN NULL
    ELSE type_object(baseType[DescriptorAt(addr)])

\* the runtime's subtype test: walk the tp_base chain of a up to b
RECURSIVE PyType_IsSubtype(_, _)
PyType_IsSubtype(a, b) ==
    IF a = b THEN 1
    ELSE IF tp_base(a) = NULL THEN 0
    ELSE PyType_IsSubtype(tp_base(a), b)

\* ffi::PyObject_TypeCheck(ob, tp): Py_TYPE(ob) == tp || PyType_IsSubtype(..)
PyObject_TypeCheck(ob_type, tp) ==
    IF ob_type = tp \/ PyType_IsSubtype(ob_type, tp) # 0 THEN 1 ELSE 0

\* ffi::PyObject_TypeCheck(object.as_ptr(), Self::type_object() as _) != 0
is_instance(T, ob_type) == PyObject_TypeCheck(ob_type, type_object(T)) # 0

\* a slip: the exact check written with the subtype check
is_exact_instance_TypeCheck(T, ob_type) ==
    PyObject_TypeCheck(ob_type, type_object(T)) # 0

\* (*object.as_ptr()).ob_type == Self::type_object() as _
is_exact_instance(T, ob_type) == ob_type = type_object(T)

\* the trees over Types rooted at descriptor 1: every other descriptor has one
\* base, declared before it
TypeTrees ==
    {b \in [Types -> 0..NumTypes] :
        /\ b[1] = 0
        /\ \A T \in Types \ {1} : b[T] \in 1..(T - 1)}

TypesInit ==
    /\ initialized = [c \in Cells |-> FALSE]
    /\ heapValue = None
    /\ staticValue = PyTypeObject_INIT
    /\ gilOwner = NoThread
    /\ gilCarries = FALSE
    /\ pc = [t \in Threads |-> "idle"]
    /\ cell = [t \in Threads |-> "none"]
    /\ swapped = [t \in Threads |-> FALSE]
    /\ gil = [t \in Threads |-> FALSE]
    /\ outer = [t \in Threads |-> FALSE]
    /\ tmp = [t \in Threads |-> None]
    /\ res = [t \in Threads |-> "none"]
    /\ sees = [t \in Threads |-> FALSE]
    /\ ncalls = 0
    /\ constructed = [c \in Cells |-> 0]
    /\ returned = [c \in Cells |-> <<>>]
    /\ stderr = {}
    /\ panicStrategy = "unwind"
    /\ aborted = FALSE
    /\ flagsIn = {}
    /\ flagsLeft = {}
    /\ bits = 0
    /\ baseType \in TypeTrees
    /\ obType = NULL
    /\ queryT = 0
    /\ instRes = FALSE
    /\ exactRes = FALSE

\* an instance of S is constructed: its ob_type points at S's type record
NewInstance(S) ==
    /\ obType' = type_object(S)
    /\ queryT' = 0
    /\ instRes' = FALSE
    /\ exactRes' = FALSE
    /\ UNCHANGED <<cellVars, gilVars, threadVars, obsVars, procVars, flagVars,
                   baseType>>

\* T::is_instance(obj) and T::is_exact_instance(obj) on the handle
CheckInstance(T) ==
    /\ obType # NULL
    /\ queryT' = T
    /\ instRes' = is_instance(T, obType)
    /\ exactRes' = is_exact_instance(T, obType)
    /\ UNCHANGED <<cellVars, gilVars, threadVars, obsVars, procVars, flagVars,
                   baseType, obType>>

TypesNext ==
    \/ \E S \in Types : NewInstance(S)
    \/ \E T \in Types : CheckInstance(T)

SpecTypes == TypesInit /\ [][TypesNext]_vars

(* ------------------------------ claims -------------------------------- *)
Payload(c) == IF c = "heap" THEN heapValue ELSE staticValue

\* some call of get_or_init on cell c has ended, by returning or by panicking
SomeCallEnded(c) ==
    \/ returned[c] # <<>>
    \/ \E t \in Threads : Panicked(t) /\ cell[t] = c

\* the synthesis of the LazyStaticType failed and the failing call has panicked
SynthesisFailed == \E t \in Threads : res[t] = "Err" /\ pc[t] = "panicked_init"

\* C1: for each cell the constructor / synthesis runs at most once, and exactly
\* once when calls on the cell have ended and none is running; a failed
\* synthesis is not run again by a later caller.
C1_ExactlyOnce ==
    \A c \in Cells :
        /\ constructed[c] <= 1
        /\ (SomeCallEnded(c) /\ \A t \in Threads : ~InCall(t, c))
               => constructed[c] = 1

\* three calls have ended, the synthesis failed once and a later call on the
\* static cell returned, and the heap constructor has run
C1_Witness ==
    /\ ncalls = MaxCalls
    /\ \A t \in Threads : \A c \in Cells : ~InCall(t, c)
    /\ \E t \in Threads : pc[t] = "panicked_init"
    /\ returned["static"] # <<>>
    /\ constructed = [c \in Cells |-> 1]

\* C2: every caller of LazyHeapType::get_or_init, winner or loser, returns the
\* address the constructor produced, and no caller finds the slot empty and
\* panics on the final read.
C2_EveryCallerGetsTheAddress ==
    /\ \A t \in Threads : pc[t] # "panicked_unwrap"
    /\ \A i \in 1..Len(returned["heap"]) : returned["heap"][i] = heapValue

\* C3: no caller of LazyStaticType::get_or_init returns the record before the
\* winner's initialize_type_object call has completed.
C3_NoReturnBeforeInitialized ==
    returned["static"] # <<>> => constructed["static"] >= 1

\* C4: once the flag of a cell is true, its payload is never written again.
C4_PayloadFrozenOnceFlagSet ==
    [][\A c \in Cells : initialized[c] => Payload(c)' = Payload(c)]_vars

\* C5: all calls of get_or_init on a cell that return, return the same address;
\* for the LazyStaticType it is the address of the embedded record at any time.
C5_Idempotent ==
    /\ \A c \in Cells : \A i, j \in 1..Len(returned[c]) :
           returned[c][i] = returned[c][j]
    /\ \A i \in 1..Len(returned["static"]) : returned["static"][i] = StaticValuePtr

\* two calls on the heap cell and one on the static cell have returned
C5_Witness ==
    /\ Len(returned["heap"]) >= 2
    /\ Len(returned["static"]) >= 1

\* C6: once a synthesis has failed and the failing call has stopped with its
\* panic, no call of LazyStaticType::get_or_init, by any thread, returns a
\* reference to the record.
C6_NoReturnAfterFailure ==
    [][SynthesisFailed => returned'["static"] = returned["static"]]_vars

\* C7: a thread whose initialize_type_object failed prints the error before it
\* panics, and never reaches the closing brace or the final read.
C7_PrintBeforePanic ==
    \A t \in Threads :
        /\ pc[t] \in {"panic", "panicked_init"} => t \in stderr
        /\ res[t] = "Err" => pc[t] \in {"print", "panic", "panicked_init"}
        /\ pc[t] \in {"print", "panic", "panicked_init"} => res[t] = "Err"

\* a thread has printed its error and panicked
C7_Witness ==
    \E t \in Threads : pc[t] = "panicked_init" /\ t \in stderr /\ res[t] = "Err"

\* C8: in LazyHeapType::get_or_init only the thread whose CAS changed the flag
\* takes the GIL, calls the constructor and writes the slot, and it does both
\* while it holds the GIL; a thread that lost the CAS does none of these.
C8_HeapCalls ==
    /\ Cardinality({t \in Threads : cell[t] = "heap" /\ swapped[t]}) <= 1
    /\ \A t \in Threads : cell[t] = "heap" =>
        /\ pc[t] \in {"construct", "store"} => swapped[t] /\ gil[t] /\ gilOwner = t
        /\ pc[t] \in {"acquire_gil", "drop_gil"} => swapped[t]
        /\ ~swapped[t] => ~gil[t] /\ tmp[t] = None

C8_OnlyWinnerUnderGil ==
    /\ []C8_HeapCalls
    /\ [][\/ (heapValue' = heapValue /\ constructed'["heap"] = constructed["heap"])
          \/ \E t \in Threads :
                /\ cell[t] = "heap" /\ swapped[t] /\ gil[t] /\ gilOwner = t
                /\ pc[t] \in {"construct", "store"} /\ pc'[t] # pc[t]]_vars

\* the winner is about to write the slot under the GIL while a loser of the
\* same cell is already at the final read
C8_Witness ==
    \E t, u \in Threads :
        /\ t # u
        /\ cell[t] = "heap" /\ pc[t] = "store" /\ gilOwner = t
        /\ cell[u] = "heap" /\ pc[u] = "read" /\ ~swapped[u]

\* C9: the flag of a cell is false after new(), with an empty payload; it turns
\* true at the first CAS any caller executes and is never false again, also
\* after a failed synthesis.
C9_FlagSetOnce ==
    /\ (\A c \in Cells : ~initialized[c]) /\ heapValue = None
           /\ staticValue = PyTypeObject_INIT
    /\ [][\A c \in Cells :
            /\ initialized[c] => initialized'[c]
            /\ (\E t \in Threads : cell[t] = c /\ pc[t] = "cas" /\ pc'[t] # "cas")
                  <=> (~initialized[c] /\ initialized'[c]) \/
                      (initialized[c] /\ \E t \in Threads :
                           cell[t] = c /\ pc[t] = "cas" /\ pc'[t] = "read")]_vars

\* the flag is still true after the synthesis failed and the thread panicked
C9_Witness ==
    /\ initialized["static"]
    /\ \E t \in Threads : pc[t] = "panicked_init"
    /\ \E t \in Threads : cell[t] = "static" /\ pc[t] = "read" /\ ~swapped[t]

\* C10: the five flags are the bits 1, 2, 4, 8, 16; or-ing a subset of them
\* sets the bit of a flag exactly when the flag is in the subset, and
\* GC | WEAKREF is 0b11.
C10_FlagComposition ==
    /\ <<GC, WEAKREF, BASETYPE, DICT, EXTENDED>> = <<1, 2, 4, 8, 16>>
    /\ \A f \in FlagNames :
           (BitAnd(bits, FlagValue(f)) # 0) <=> (f \in flagsIn \ flagsLeft)
    /\ (flagsIn = {"GC", "WEAKREF"} /\ flagsLeft = {}) => bits = 3

\* GC | WEAKREF has been composed
C10_Witness ==
    /\ flagsIn = {"GC", "WEAKREF"}
    /\ flagsLeft = {}
    /\ BitAnd(bits, GC) # 0 /\ BitAnd(bits, WEAKREF) # 0
    /\ BitAnd(bits, BASETYPE) = 0 /\ BitAnd(bits, DICT) = 0 /\ BitAnd(bits, EXTENDED) = 0

\* the n-th base of descriptor S in the descriptor tree, 0 above the root
RECURSIVE NthBase(_, _)
NthBase(S, n) ==
    IF n = 0 \/ S = 0 THEN S ELSE NthBase(baseType[S], n - 1)

\* S is T or a descendant of T
DescendsFrom(S, T) == \E n \in 0..NumTypes : NthBase(S, n) = T

\* C11: is_exact_instance::<T>(h) holds exactly when h's runtime type is T's
\* own record, is_instance::<T>(h) exactly when h's runtime type is T or a
\* descendant of T; so an instance of a subtype S of B is an instance of both,
\* an exact instance of S only, and an exact instance is always an instance.
C11_InstanceChecks ==
    queryT # 0 =>
        LET S == DescriptorAt(obType) IN
        /\ exactRes <=> (S = queryT)
        /\ instRes <=> DescendsFrom(S, queryT)
        /\ exactRes => instRes
        /\ (S # queryT /\ DescendsFrom(S, queryT)) => (instRes /\ ~exactRes)

\* an instance of a subtype two levels below the base was checked against the
\* base: an instance, not an exact one
C11_Witness ==
    /\ queryT # 0
    /\ obType # NULL
    /\ baseType[DescriptorAt(obType)] # 0
    /\ baseType[DescriptorAt(obType)] # queryT
    /\ baseType[baseType[DescriptorAt(obType)]] = queryT
    /\ instRes
    /\ ~exactRes

\* C12: the GIL guard taken inside get_or_init lives only inside the if block:
\* it is gone at the final read, after the return and after the panic of a
\* failed synthesis, and a thread owns the GIL only through a live guard (its
\* caller's or the block's), so no thread of the running process is left
\* holding the lock because of get_or_init.
C12_LockHeldOnlyForInit ==
    ~aborted =>
        \A t \in Threads :
            /\ gil[t] => pc[t] \in {"construct", "store", "initialize", "print",
                                    "panic", "drop_gil"}
            /\ gilOwner = t => (gil[t] \/ outer[t])
            /\ (pc[t] \in {"read", "idle"} /\ ~outer[t]) => gilOwner # t
            /\ Panicked(t) => gilOwner # t

\* one winner is at its final read and another thread's synthesis has failed
\* and panicked; the lock is free
C12_Witness ==
    /\ ~aborted
    /\ gilOwner = NoThread
    /\ \E t \in Threads : pc[t] = "read" /\ swapped[t] /\ ~outer[t]
    /\ \E t \in Threads : pc[t] = "panicked_init"

\* a call of get_or_init of thread t is running, on either cell
Running(t) == \E c \in Cells : InCall(t, c)

\* C13: with a fairly granted GIL and a terminating constructor / synthesis,
\* every call of get_or_init ends, by returning or panicking (or with the
\* process aborted by a panic); a running call can always take its next step
\* unless it is the CAS winner waiting for the GIL another thread holds, so a
\* CAS loser never waits, also when it holds the GIL the winner waits for.
C13_EveryCallEnds ==
    /\ [](\A t \in Threads :
            (Running(t) /\ ~aborted) =>
                \/ ENABLED RunStep(t)
                \/ ENABLED AcquireGil(t)
                \/ (pc[t] = "acquire_gil" /\ swapped[t]
                        /\ gilOwner \notin {NoThread, t}))
    /\ \A t \in Threads : Running(t) ~> (~Running(t) \/ aborted)

\* the winner of the heap cell waits for the GIL while a loser of the same
\* cell, whose caller holds the GIL, is at its final read
C13_Witness ==
    \E t, u \in Threads :
        /\ t # u
        /\ cell[t] = "heap" /\ pc[t] = "acquire_gil" /\ swapped[t]
        /\ cell[u] = "heap" /\ pc[u] = "read" /\ ~swapped[u]
        /\ outer[u] /\ gilOwner = u

====
